---- MODULE Spec2Model ----
(***************************************************************************)
(* generate_ics.py: text blocks of a TV programme are parsed into match    *)
(* events, deduplicated, sorted and encoded as an iCalendar document.      *)
(*                                                                         *)
(* A Python str is modelled as a sequence of one-character strings, so     *)
(* that searching, splitting, replacing, escaping and folding are computed *)
(* character by character as the code computes them.                       *)
(***************************************************************************)
EXTENDS Integers, Sequences, FiniteSets, TLC

VARIABLES
    blocks,      \* main: the list returned by scrape_program_text_blocks
    idx,         \* build_events_from_blocks: position of the for loop
    events,      \* build_events_from_blocks: the list `events`
    pc,          \* main: "loop", "built", "done" or "raised" ("idle": not called)
    ret,         \* main: the return value (-1 while running or raised)
    outFile,     \* main: the text written to OUT_PATH (<<>> when not written)
    escIn,       \* ics_escape: the argument
    escOut,      \* ics_escape: the returned text
    escPc,       \* ics_escape: "call" or "done"
    foldIn,      \* ics_fold_line: the argument
    foldLine,    \* ics_fold_line: the local `line`
    foldOut,     \* ics_fold_line: the local list `out`
    foldRet,     \* ics_fold_line: the returned text
    foldPc       \* ics_fold_line: "call", "loop" or "done"

vars == <<blocks, idx, events, pc, ret, outFile,
          escIn, escOut, escPc, foldIn, foldLine, foldOut, foldRet, foldPc>>

(***************************************************************************)
(* Bounds of the model.                                                    *)
(***************************************************************************)
MaxBlocks == 3       \* longest list of blocks fed to build_events_from_blocks
MaxEscLen == 3       \* longest text given to ics_escape
MaxFoldLen == 160    \* longest logical line given to ics_fold_line

(***************************************************************************)
(* Characters.                                                             *)
(***************************************************************************)
NBSP == <<" ">>[1]
Digits == <<"0","1","2","3","4","5","6","7","8","9">>
UpperCase == <<"A","B","C","D","E","F","G","H","I","J","K","L","M","N","O","P","Q","R","S","T","U","V","W","X","Y","Z","Å">>
LowerCase == <<"a","b","c","d","e","f","g","h","i","j","k","l","m","n","o","p","q","r","s","t","u","v","w","x","y","z","å">>
\* The characters of the model in code point order (str comparison, sort key).
CodePoints == <<"\t","\n","\r"," ","!","+",",","-",".","/">> \o Digits \o <<":",";">> \o SubSeq(UpperCase, 1, 26)
                \o <<"\\","_">> \o SubSeq(LowerCase, 1, 26) \o <<"|">> \o <<NBSP, "Å", "å">>

Range(f) == {f[i] : i \in DOMAIN f}
\* F(v), with v evaluated once
Let(v, F(_)) == CHOOSE r \in {F(x) : x \in {v}} : TRUE
\* a sequence given as a function, as a tuple
Tup(f) == f \o <<>>
\* the least and the greatest j in lo..hi with P(j); 0 when there is none
First(lo, hi, P(_)) ==
    IF \E j \in lo..hi : P(j)
    THEN CHOOSE j \in lo..hi : P(j) /\ \A k \in lo..(j - 1) : ~P(k)
    ELSE 0
Last(lo, hi, P(_)) ==
    IF \E j \in lo..hi : P(j)
    THEN CHOOSE j \in lo..hi : P(j) /\ \A k \in (j + 1)..hi : ~P(k)
    ELSE 0
IndexOf(seq, c) == First(1, Len(seq), LAMBDA i : seq[i] = c)

DigitSet == Range(Digits)
IsDigit(c) == c \in DigitSet
DigitValue == [c \in DigitSet |-> IndexOf(Digits, c) - 1]
DigitVal(c) == DigitValue[c]
\* \w of the re module: letters, digits and the underscore
WordChars == DigitSet \cup Range(UpperCase) \cup Range(LowerCase) \cup {"_"}
IsWordChar(c) == c \in WordChars
\* \s of the re module and the characters str.strip() removes
WhiteSpace == {" ", "\t", "\n", "\r", NBSP}
\* str.lower() of one character
LowerOf ==
    [c \in Range(CodePoints) |->
       IF c \in Range(UpperCase) THEN LowerCase[IndexOf(UpperCase, c)] ELSE c]
LowerText(s) == Tup([i \in DOMAIN s |-> LowerOf[s[i]]])
CodeOf == [c \in Range(CodePoints) |-> IndexOf(CodePoints, c)]
Code(c) == CodeOf[c]

(***************************************************************************)
(* str operations.                                                         *)
(***************************************************************************)
\* s[i:] starts with lit (positions from 1)
StartsAt(s, i, lit) ==
    /\ i >= 1
    /\ i + Len(lit) - 1 <= Len(s)
    /\ \A k \in 1..Len(lit) : s[i + k - 1] = lit[k]

StartsWith(s, lit) == StartsAt(s, 1, lit)

\* s.find(lit) + 1 searched from position i: 0 when absent
FindFrom(s, lit, i) == First(i, Len(s) + 1, LAMBDA j : StartsAt(s, j, lit))

Find(s, lit) == FindFrom(s, lit, 1)

\* lit in s
Contains(s, lit) == Find(s, lit) # 0

RECURSIVE ReplaceFrom(_, _, _, _)
ReplaceFrom(s, old, new, i) ==
    Let(FindFrom(s, old, i),
        LAMBDA j : IF j = 0 THEN SubSeq(s, i, Len(s))
                   ELSE SubSeq(s, i, j - 1) \o new \o ReplaceFrom(s, old, new, j + Len(old)))

\* s.replace(old, new), old not empty: non-overlapping occurrences, left to right
Replace(s, old, new) == Let(s, LAMBDA t : ReplaceFrom(t, old, new, 1))

RECURSIVE SplitFrom(_, _, _)
SplitFrom(s, sep, i) ==
    Let(FindFrom(s, sep, i),
        LAMBDA j : IF j = 0 THEN <<SubSeq(s, i, Len(s))>>
                   ELSE <<SubSeq(s, i, j - 1)>> \o SplitFrom(s, sep, j + Len(sep)))

\* s.split(sep)
Split(s, sep) == Let(s, LAMBDA t : SplitFrom(t, sep, 1))

\* s.split(sep, 1)
Split1(s, sep) ==
    Let(Find(s, sep),
        LAMBDA j : IF j = 0 THEN <<s>> ELSE <<SubSeq(s, 1, j - 1), SubSeq(s, j + Len(sep), Len(s))>>)

RECURSIVE Join(_, _)
\* sep.join(parts)
Join(parts, sep) ==
    IF parts = <<>> THEN <<>>
    ELSE IF Len(parts) = 1 THEN parts[1]
    ELSE parts[1] \o sep \o Join(Tail(parts), sep)

\* s.strip()
StrStrip(s) ==
    Let(<<First(1, Len(s), LAMBDA i : s[i] \notin WhiteSpace),
          Last(1, Len(s), LAMBDA i : s[i] \notin WhiteSpace)>>,
        LAMBDA b : IF b[1] = 0 THEN <<>> ELSE SubSeq(s, b[1], b[2]))

RECURSIVE Flatten(_)
\* the concatenation of a sequence of sequences
Flatten(ss) == IF ss = <<>> THEN <<>> ELSE Head(ss) \o Flatten(Tail(ss))

\* [x for x in seq if P(x)]
Filter(seq, P(_)) == Flatten(Tup([k \in DOMAIN seq |-> IF P(seq[k]) THEN <<seq[k]>> ELSE <<>>]))

\* [F(x) for x in seq]
Map(seq, F(_)) == Tup([k \in DOMAIN seq |-> F(seq[k])])

\* int(s) of a run of decimal digits
RECURSIVE ToInt(_)
ToInt(s) == IF s = <<>> THEN 0 ELSE 10 * ToInt(SubSeq(s, 1, Len(s) - 1)) + DigitVal(s[Len(s)])

\* the format specs :02d and :04d, and strftime's %H %M %d %m %Y
Pad2(n) == IF n < 100 THEN <<Digits[(n \div 10) + 1], Digits[(n % 10) + 1]>>
           ELSE <<Digits[(n \div 100) + 1], Digits[((n \div 10) % 10) + 1], Digits[(n % 10) + 1]>>
Pad4(n) == <<Digits[((n \div 1000) % 10) + 1], Digits[((n \div 100) % 10) + 1],
             Digits[((n \div 10) % 10) + 1], Digits[(n % 10) + 1]>>

\* str comparison a < b, by code points
RECURSIVE StrLess(_, _)
StrLess(a, b) ==
    IF b = <<>> THEN FALSE
    ELSE IF a = <<>> THEN TRUE
    ELSE IF a[1] # b[1] THEN Code(a[1]) < Code(b[1])
    ELSE StrLess(Tail(a), Tail(b))

(***************************************************************************)
(* Regular expressions of the re module, as far as the patterns of the     *)
(* program use them.  A pattern is a tree; Ends gives the positions where  *)
(* a match of the pattern starting at position i can end, in the order     *)
(* the backtracking matcher tries them (greedy repetition, alternatives    *)
(* left to right), so the first one is the match re finds.                 *)
(***************************************************************************)
Lit(s) == [t |-> "lit", s |-> s]                      \* literal text
OneOf(cs) == [t |-> "set", cs |-> cs]                 \* a character class
AnyChar == [t |-> "any"]                              \* . (no newline)
WordB == [t |-> "b"]                                  \* \b
Cat(rs) == [t |-> "cat", rs |-> rs]                   \* concatenation
Alt(rs) == [t |-> "alt", rs |-> rs]                   \* r1|r2|...
Rep(r, lo, hi) == [t |-> "rep", r |-> r, lo |-> lo, hi |-> hi]  \* r{lo,hi}; hi = -1: no limit
Opt(r) == Rep(r, 0, 1)                                \* r?
Star(r) == Rep(r, 0, -1)                              \* r*
Plus(r) == Rep(r, 1, -1)                              \* r+
Digit == OneOf(DigitSet)                              \* \d
Space == OneOf(WhiteSpace)                            \* \s

\* \b at position i: exactly one of s[i-1], s[i] is a word character
AtBoundary(s, i) ==
    LET before == i >= 2 /\ i - 1 <= Len(s) /\ IsWordChar(s[i - 1])
        after == i >= 1 /\ i <= Len(s) /\ IsWordChar(s[i])
    IN  before # after

RECURSIVE Ends(_, _, _)
EndsOf(re, s, i) ==
    CASE re.t = "lit" -> IF StartsAt(s, i, re.s) THEN <<i + Len(re.s)>> ELSE <<>>
      [] re.t = "set" -> IF i <= Len(s) /\ s[i] \in re.cs THEN <<i + 1>> ELSE <<>>
      [] re.t = "any" -> IF i <= Len(s) /\ s[i] # "\n" THEN <<i + 1>> ELSE <<>>
      [] re.t = "b" -> IF AtBoundary(s, i) THEN <<i>> ELSE <<>>
      [] re.t = "cat" ->
           IF re.rs = <<>> THEN <<i>>
           ELSE Let(Ends(Head(re.rs), s, i),
                    LAMBDA first :
                      IF first = <<>> THEN <<>>
                      ELSE Flatten(Tup([k \in DOMAIN first |-> Ends(Cat(Tail(re.rs)), s, first[k])])))
      [] re.t = "alt" -> Flatten(Tup([k \in DOMAIN re.rs |-> Ends(re.rs[k], s, i)]))
      [] re.t = "rep" ->
           Let(<<IF re.hi = 0 THEN <<>> ELSE Ends(re.r, s, i),
                 Rep(re.r, IF re.lo > 0 THEN re.lo - 1 ELSE 0, IF re.hi > 0 THEN re.hi - 1 ELSE re.hi)>>,
               LAMBDA a :
                 Flatten(Tup([k \in DOMAIN a[1] |->
                                IF a[1][k] > i THEN Ends(a[2], s, a[1][k]) ELSE <<>>]))
                 \o (IF re.lo = 0 THEN <<i>> ELSE <<>>))

Ends(re, s, i) == Let(<<re, s, i>>, LAMBDA a : EndsOf(a[1], a[2], a[3]))

\* the pattern under re.IGNORECASE: its literals in lower case, to be matched
\* against the text in lower case
RECURSIVE LowerPattern(_)
LowerPattern(re) ==
    CASE re.t = "lit" -> Lit(LowerText(re.s))
      [] re.t \in {"cat", "alt"} ->
           [re EXCEPT !.rs = Tup([k \in DOMAIN re.rs |-> LowerPattern(re.rs[k])])]
      [] re.t = "rep" -> [re EXCEPT !.r = LowerPattern(re.r)]
      [] OTHER -> re

\* the leftmost position from i where the pattern matches, with the end of
\* that match
ScanFrom(re, s, i) ==
    Let(First(i, Len(s) + 1, LAMBDA j : Ends(re, s, j) # <<>>),
        LAMBDA at : IF at = 0 THEN <<0, 0>> ELSE <<at, Ends(re, s, at)[1]>>)

\* pattern.search(s, i - 1): [from, to) of the leftmost match, <<0, 0>> when
\* none; ic: the pattern is compiled with re.IGNORECASE
SearchFrom(re, ic, s, i) ==
    Let(IF ic THEN <<LowerPattern(re), LowerText(s), i>> ELSE <<re, s, i>>,
        LAMBDA a : ScanFrom(a[1], a[2], a[3]))

Search(re, ic, s) == SearchFrom(re, ic, s, 1)

Found(re, ic, s) == Search(re, ic, s)[1] # 0

\* m.group(0)
Matched(re, ic, s) == Let(Search(re, ic, s), LAMBDA m : SubSeq(s, m[1], m[2] - 1))

\* pattern.match(s): the end of the match at the start of s, 0 when none
MatchEnd(re, ic, s) ==
    Let(IF ic THEN Ends(LowerPattern(re), LowerText(s), 1) ELSE Ends(re, s, 1),
        LAMBDA e : IF e = <<>> THEN 0 ELSE e[1])

\* the maximal runs of digits of a matched text: the groups of the three
\* numeric patterns, whose groups are digits and whose separators are not
RECURSIVE DigitRuns(_)
DigitRuns(s) ==
    IF s = <<>> THEN <<>>
    ELSE IF ~IsDigit(s[1]) THEN DigitRuns(Tail(s))
    ELSE Let(First(1, Len(s), LAMBDA i : ~IsDigit(s[i])),
             LAMBDA stop : IF stop = 0 THEN <<s>>
                           ELSE <<SubSeq(s, 1, stop - 1)>> \o DigitRuns(SubSeq(s, stop, Len(s))))

\* re.sub(pattern, repl, s) for a pattern that matches no empty text
RECURSIVE ReSubFrom(_, _, _, _, _)
ReSubFrom(re, ic, repl, s, i) ==
    Let(SearchFrom(re, ic, s, i),
        LAMBDA m : IF m[1] = 0 THEN SubSeq(s, i, Len(s))
                   ELSE SubSeq(s, i, m[1] - 1) \o repl \o ReSubFrom(re, ic, repl, s, m[2]))

ReSub(re, ic, repl, s) == Let(s, LAMBDA t : ReSubFrom(re, ic, repl, t, 1))

(***************************************************************************)
(* datetime and timedelta.                                                 *)
(***************************************************************************)
IsLeap(y) == (y % 4 = 0 /\ y % 100 # 0) \/ y % 400 = 0
DaysInMonth(y, mo) ==
    IF mo = 2 THEN (IF IsLeap(y) THEN 29 ELSE 28)
    ELSE IF mo \in {4, 6, 9, 11} THEN 30 ELSE 31

\* datetime(y, mo, d, h, mi) raises ValueError unless this holds
ValidDateTime(y, mo, d, h, mi) ==
    /\ y \in 1..9999
    /\ mo \in 1..12
    /\ d \in 1..DaysInMonth(y, mo)
    /\ h \in 0..23
    /\ mi \in 0..59

\* datetime(y, mo, d, h, mi): the second is 0
DateTime(y, mo, d, h, mi) == [y |-> y, mo |-> mo, d |-> d, h |-> h, mi |-> mi, s |-> 0]

\* the day after (y, mo, d)
NextDay(dt) ==
    IF dt.d < DaysInMonth(dt.y, dt.mo) THEN [dt EXCEPT !.d = dt.d + 1]
    ELSE IF dt.mo < 12 THEN [dt EXCEPT !.d = 1, !.mo = dt.mo + 1]
    ELSE [dt EXCEPT !.d = 1, !.mo = 1, !.y = dt.y + 1]

\* dt + timedelta(minutes = n), n < 1440; year 10000 is OverflowError
AddMinutes(dt, n) ==
    Let(dt.h * 60 + dt.mi + n,
        LAMBDA total :
          IF total < 1440 THEN [dt EXCEPT !.h = total \div 60, !.mi = total % 60]
          ELSE NextDay([dt EXCEPT !.h = (total \div 60) % 24, !.mi = total % 60]))

\* a < b for datetime
DtLess(a, b) ==
    LET ka == <<a.y, a.mo, a.d, a.h, a.mi, a.s>>
        kb == <<b.y, b.mo, b.d, b.h, b.mi, b.s>>
    IN  \E i \in 1..6 : ka[i] < kb[i] /\ \A j \in 1..(i - 1) : ka[j] = kb[j]

\* dt.strftime("%Y%m%dT%H%M%S")
dt_to_ics_local(dt) ==
    Pad4(dt.y) \o Pad2(dt.mo) \o Pad2(dt.d) \o <<"T">> \o Pad2(dt.h) \o Pad2(dt.mi) \o Pad2(dt.s)

\* dt.strftime("%Y%m%dT%H%M%SZ")
dt_to_ics_utc(dt) == dt_to_ics_local(dt) \o <<"Z">>

DefaultMinutes == 90

default_end_time(start) == AddMinutes(start, DefaultMinutes)

(***************************************************************************)
(* The patterns.                                                           *)
(***************************************************************************)
CHANNEL_RE ==
    Cat(<<WordB,
          Alt(<<Cat(<<Lit(<<"T","V">>), Opt(Space), Lit(<<"2">>),
                      Opt(Alt(<<Cat(<<Star(Space), Lit(<<"S","p","o","r","t">>)>>),
                                Cat(<<Star(Space), Lit(<<"N","e","w","s">>)>>),
                                Cat(<<Star(Space), Lit(<<"C","h","a","r","l","i","e">>)>>),
                                Cat(<<Star(Space), Lit(<<"E","c","h","o">>)>>),
                                Cat(<<Star(Space), Lit(<<"Z","u","l","u">>)>>)>>))>>),
                Cat(<<Lit(<<"T","V","3">>), Opt(Cat(<<Star(Space), Lit(<<"S","p","o","r","t">>)>>))>>),
                Lit(<<"D","R","1">>),
                Lit(<<"D","R","2">>),
                Cat(<<Lit(<<"D","R">>), Opt(Space), Lit(<<"R","a","m","a","s","j","a","n","g">>)>>),
                Cat(<<Lit(<<"D","R">>), Opt(Space), Lit(<<"T","V">>)>>),
                Cat(<<Lit(<<"E","u","r","o","s","p","o","r","t">>), Opt(Cat(<<Star(Space), Plus(Digit)>>))>>),
                Lit(<<"V","i","a","p","l","a","y">>),
                Lit(<<"S","p","o","r","t"," ","L","i","v","e">>),
                Lit(<<"M","A","X">>),
                Lit(<<"D","i","s","c","o","v","e","r","y","+">>),
                Lit(<<"D","A","Z","N">>)>>),
          WordB>>)

DateSep == OneOf({".", "/", "-"})
TIME_RE == Cat(<<WordB, Rep(Digit, 1, 2), Lit(<<".">>), Rep(Digit, 2, 2), WordB>>)
DATE_RE == Cat(<<WordB, Rep(Digit, 1, 2), DateSep, Rep(Digit, 1, 2), DateSep, Rep(Digit, 2, 4), WordB>>)
ISO_DATE_RE == Cat(<<WordB, Rep(Digit, 4, 4), Lit(<<"-">>), Rep(Digit, 2, 2), Lit(<<"-">>), Rep(Digit, 2, 2), WordB>>)

\* re.sub(r"[ \t]+", " ", (s or "").strip())
_strip(s) == ReSub(Plus(OneOf({" ", "\t"})), FALSE, <<" ">>, StrStrip(s))

normalize_channel(text) ==
    Let(Search(CHANNEL_RE, TRUE, text),
        LAMBDA m :
          IF m[1] = 0 THEN <<>>
          ELSE ReSub(Rep(Space, 2, -1), FALSE, <<" ">>,
                     ReSub(Cat(<<WordB, Lit(<<"T","V">>), Plus(Space), Lit(<<"2">>), WordB>>), TRUE, <<"T","V","2">>,
                           StrStrip(SubSeq(text, m[1], m[2] - 1)))))

NoDateTime == DateTime(0, 0, 0, 0, 0)

\* lines 184-198: <<y, mo, d>> of the first ISO date, else of the first
\* D/M/Y date, else <<>>
date_of(blob) ==
    Let(DigitRuns(Matched(ISO_DATE_RE, FALSE, blob)),
        LAMBDA iso :
          IF iso # <<>> THEN <<ToInt(iso[1]), ToInt(iso[2]), ToInt(iso[3])>>
          ELSE Let(DigitRuns(Matched(DATE_RE, FALSE, blob)),
                   LAMBDA dmy :
                     IF dmy = <<>> THEN <<>>
                     ELSE <<IF ToInt(dmy[3]) < 100 THEN ToInt(dmy[3]) + 2000 ELSE ToInt(dmy[3]),
                            ToInt(dmy[2]), ToInt(dmy[1])>>))

\* lines 201-205: <<hh, mm>> of the first time, else <<>>
time_of(blob) ==
    Let(DigitRuns(Matched(TIME_RE, FALSE, blob)),
        LAMBDA hm : IF hm = <<>> THEN <<>> ELSE <<ToInt(hm[1]), ToInt(hm[2])>>)

\* Returns [raised, found, dt, date_key]: raised when datetime() raises
\* ValueError; found = FALSE stands for the result (None, None).
parse_datetime_from_text(blob0) ==
    Let(Replace(blob0, <<NBSP>>, <<" ">>),
        LAMBDA blob :
          Let(<<date_of(blob), time_of(blob)>>,
              LAMBDA a :
                IF a[1] = <<>> \/ a[2] = <<>>
                  THEN [raised |-> FALSE, found |-> FALSE, dt |-> NoDateTime, date_key |-> <<>>]
                ELSE IF ~ValidDateTime(a[1][1], a[1][2], a[1][3], a[2][1], a[2][2])
                  THEN [raised |-> TRUE, found |-> FALSE, dt |-> NoDateTime, date_key |-> <<>>]
                ELSE [raised |-> FALSE, found |-> TRUE,
                      dt |-> DateTime(a[1][1], a[1][2], a[1][3], a[2][1], a[2][2]),
                      date_key |-> Pad4(a[1][1]) \o <<"-">> \o Pad2(a[1][2]) \o <<"-">> \o Pad2(a[1][3])]))

(***************************************************************************)
(* Teams, competition, summary.                                            *)
(***************************************************************************)
noise_prefixes == <<<<"V","i","s","e","s"," ","p","å">>, <<"K","a","n","a","l">>, <<"T","V">>, <<"a","l","l","-","d","a","y">>, <<"s","t","a","r","t","s">>, <<"e","n","d","s">>>>

IsNoise(ln) ==
    \E k \in DOMAIN noise_prefixes : StartsWith(LowerText(ln), LowerText(noise_prefixes[k]))

\* CHANNEL_RE.search(ln) or DATE_RE.search(ln) or ISO_DATE_RE.search(ln)
\* or (TIME_RE.search(ln) and len(ln) <= 5)
is_meta(ln) ==
    \/ Found(CHANNEL_RE, TRUE, ln)
    \/ Found(DATE_RE, FALSE, ln)
    \/ Found(ISO_DATE_RE, FALSE, ln)
    \/ (Found(TIME_RE, FALSE, ln) /\ Len(ln) <= 5)

prefer_re ==
    Cat(<<WordB,
          Alt(<<Lit(<<"r","u","n","d","e">>), Lit(<<"l","i","g","a">>), Lit(<<"l","i","g">>), Lit(<<"t","u","r","n","e","r","i","n","g">>), Lit(<<"f","i","n","a","l">>),
                Lit(<<"s","e","m","i">>), Lit(<<"k","v","a","r","t">>), Lit(<<"c","h","a","m","p","i","o","n","s">>), Lit(<<"e","u","r","o","p","e">>),
                Lit(<<"e","m">>), Lit(<<"v","m">>)>>),
          WordB>>)

\* " - " in ln with at least two characters on each side of the first one
IsPairLine(ln) ==
    /\ Contains(ln, <<" ","-"," ">>)
    /\ Len(Split1(ln, <<" ","-"," ">>)[1]) >= 2
    /\ Len(Split1(ln, <<" ","-"," ">>)[2]) >= 2

\* lines 224-237: the lines stripped, the empty and the noise ones dropped
cleaned_lines(lines) ==
    Filter(Filter(Map(lines, _strip), LAMBDA ln : ln # <<>>), LAMBDA ln : ~IsNoise(ln))

\* lines 239-269: the teams of the cleaned lines, "" when no strategy finds any
teams_of(cleaned) ==
    Let(<<First(1, Len(cleaned), LAMBDA k : IsPairLine(cleaned[k])),
          First(1, Len(cleaned) - 2,
                LAMBDA i : cleaned[i + 1] = <<"-">> /\ cleaned[i] # <<>> /\ cleaned[i + 2] # <<>>)>>,
        LAMBDA p :
          \* 1) one-line teams "A - B"
          IF p[1] # 0 THEN cleaned[p[1]]
          \* 2) three-line pattern: A, "-", B
          ELSE IF p[2] # 0 THEN cleaned[p[2]] \o <<" ","-"," ">> \o cleaned[p[2] + 2]
          \* 3) the first two lines that are no channel, time or date
          ELSE Let(Filter(cleaned, LAMBDA ln : ~is_meta(ln)),
                   LAMBDA candidates :
                     IF Len(candidates) >= 2 THEN candidates[1] \o <<" ","-"," ">> \o candidates[2]
                     ELSE <<>>))

\* lines 271-294: the competition of the cleaned lines, given the teams
comp_of(cleaned, teams) ==
    Let(Filter(cleaned, LAMBDA ln : /\ ~is_meta(ln)
                                    /\ ~(teams # <<>> /\ ln = teams)
                                    /\ ~(teams # <<>> /\ Contains(teams, ln))),
        LAMBDA comp_candidates :
          Let(IF teams = <<>> THEN <<>>
              ELSE Filter(comp_candidates, LAMBDA c : Found(prefer_re, TRUE, c)),
              LAMBDA preferred :
                IF preferred # <<>> THEN preferred[1]
                ELSE IF comp_candidates # <<>> THEN comp_candidates[1]
                ELSE <<>>))

\* Returns <<teams, competition>>.
extract_teams_and_competition(lines) ==
    Let(cleaned_lines(lines),
        LAMBDA cleaned :
          Let(teams_of(cleaned),
              LAMBDA teams : <<_strip(teams), _strip(comp_of(cleaned, teams))>>))

compy ==
    Cat(<<WordB,
          Alt(<<Lit(<<"E","M">>), Lit(<<"V","M">>), Lit(<<"l","i","g","a">>), Lit(<<"f","i","n","a","l">>), Lit(<<"r","u","n","d","e">>),
                Lit(<<"t","u","r","n","e","r","i","n","g">>), Lit(<<"c","h","a","m","p","i","o","n","s">>), Lit(<<"g","r","u","p","p","e","s","p","i","l">>), Lit(<<"q","u","a","l">>),
                Lit(<<"k","v","a","l">>), Lit(<<"p","o","k","a","l">>)>>),
          WordB>>)

teamy == Cat(<<Plus(AnyChar), Lit(<<" ","-"," ">>), Plus(AnyChar)>>)

\* Returns <<summary, competition>>, swapped when the summary looks like a
\* competition and the competition like teams.
clean_summary(summary, competition) ==
    Let(<<_strip(summary), _strip(competition)>>,
        LAMBDA a : IF Found(compy, TRUE, a[1]) /\ MatchEnd(teamy, FALSE, a[2]) # 0
                   THEN <<a[2], a[1]>> ELSE a)

Placeholder == <<"H","å","n","d","b","o","l","d","k","a","m","p">>

\* teams if teams else (competition if competition else "Håndboldkamp")
\* fallback_summary without the fallback: summary = teams
summary_teams_only(teams, competition) == teams

fallback_summary(teams, competition) ==
    IF teams # <<>> THEN teams
    ELSE IF competition # <<>> THEN competition
    ELSE Placeholder

\* the key of the deduplication and the seed of the UID
\* uid_seed_of without the channel
uid_seed_start_summary(date_key, start, summary, channel) ==
    date_key \o <<"|">> \o Pad2(start.h) \o <<":">> \o Pad2(start.mi) \o <<"|">> \o summary

uid_seed_of(date_key, start, summary, channel) ==
    date_key \o <<"|">> \o Pad2(start.h) \o <<":">> \o Pad2(start.mi) \o <<"|">> \o summary \o <<"|">> \o channel

\* str(uuid.uuid5(NAMESPACE_URL, seed)) + "@danskhaandbold.tvprogram": the
\* name-based UUID is a function of the seed alone; it is kept symbolic
stable_uid(seed) == <<"u","u","i","d","5","(">> \o seed \o <<")","@","d","a","n","s","k","h","a","a","n","d","b","o","l","d",".","t","v","p","r","o","g","r","a","m">>

\* line 387: the lines of the block, stripped, the empty ones dropped
lines_of(block) == Filter(Map(Split(block, <<"\n">>), StrStrip), LAMBDA ln : ln # <<>>)

\* lines 407-435
description_of(lines, summary, competition) ==
    Let(Filter(Map(lines, _strip),
               LAMBDA ln : /\ ln # <<>>
                           /\ ln # summary
                           /\ ln # competition
                           /\ ~is_meta(ln)
                           /\ ~(summary # <<>> /\ Contains(summary, ln))),
        LAMBDA extra :
          IF extra = <<>> THEN competition
          ELSE IF competition # <<>>
            THEN competition \o <<"\n">> \o Join(SubSeq(extra, 1, IF Len(extra) < 4 THEN Len(extra) ELSE 4), <<"\n">>)
          ELSE Join(SubSeq(extra, 1, IF Len(extra) < 4 THEN Len(extra) ELSE 4), <<"\n">>))

\* lines 395-452, for a block whose date and time are parsed
event_of(block, lines, parsed) ==
    Let(<<normalize_channel(block), extract_teams_and_competition(lines)>>,
        LAMBDA a :
          Let(clean_summary(fallback_summary(a[2][1], a[2][2]), a[2][2]),
              LAMBDA sc :
                [start |-> parsed.dt,
                 end |-> default_end_time(parsed.dt),
                 summary |-> sc[1],
                 location |-> a[1],
                 description |-> description_of(lines, sc[1], sc[2]),
                 uid_seed |-> uid_seed_of(parsed.date_key, parsed.dt, sc[1], a[1])]))

\* One pass of the for loop of build_events_from_blocks over `block`:
\* [kind |-> "raise"], [kind |-> "skip"] or [kind |-> "event", ev |-> MatchEvent].
block_event(block) ==
    Let(<<lines_of(block), parse_datetime_from_text(block)>>,
        LAMBDA a :
          IF a[2].raised THEN [kind |-> "raise"]
          ELSE IF ~a[2].found THEN [kind |-> "skip"]
          ELSE IF default_end_time(a[2].dt).y > 9999 THEN [kind |-> "raise"]
          ELSE [kind |-> "event", ev |-> event_of(block, a[1], a[2])])

(***************************************************************************)
(* Deduplication and sort of build_events_from_blocks.                     *)
(***************************************************************************)
\* unique[ev.uid_seed] = ev on a dict kept as the list of its values in
\* insertion order: a known key keeps its place and takes the new value
\* dict_put that keeps the value a key already has
dict_put_keep_first(unique, ev) ==
    IF \E k \in DOMAIN unique : unique[k].uid_seed = ev.uid_seed THEN unique ELSE Append(unique, ev)

\* dict_put that never finds the key
dict_put_append(unique, ev) == Append(unique, ev)

dict_put(unique, ev) ==
    IF \E k \in DOMAIN unique : unique[k].uid_seed = ev.uid_seed
    THEN Tup([k \in DOMAIN unique |-> IF unique[k].uid_seed = ev.uid_seed THEN ev ELSE unique[k]])
    ELSE Append(unique, ev)

RECURSIVE dedup_from(_, _, _)
dedup_from(evs, i, unique) ==
    IF i > Len(evs) THEN unique ELSE dedup_from(evs, i + 1, dict_put(unique, evs[i]))

\* unique = {}; for ev in events: unique[ev.uid_seed] = ev; list(unique.values())
dedup(evs) == Let(evs, LAMBDA l : dedup_from(l, 1, <<>>))

\* key(a) < key(b) for key = lambda e: (e.start, e.summary)
sort_key_less(a, b) ==
    \/ DtLess(a.start, b.start)
    \/ (a.start = b.start /\ StrLess(a.summary, b.summary))

\* e put into a sorted list behind every element whose key is not greater
sort_insert(sorted, e) ==
    Let(First(1, Len(sorted), LAMBDA k : sort_key_less(e, sorted[k])),
        LAMBDA g : IF g = 0 THEN Append(sorted, e)
                   ELSE SubSeq(sorted, 1, g - 1) \o <<e>> \o SubSeq(sorted, g, Len(sorted)))

RECURSIVE sort_from(_, _, _)
sort_from(evs, i, sorted) ==
    IF i > Len(evs) THEN sorted ELSE sort_from(evs, i + 1, sort_insert(sorted, evs[i]))

\* sort_events that leaves the list as it is
sort_events_skipped(evs) == evs

\* events.sort(key = ...): a stable sort
sort_events(evs) == Let(evs, LAMBDA l : sort_from(l, 1, <<>>))

\* lines 454-462
dedup_and_sort(evs) == sort_events(dedup(evs))

(***************************************************************************)
(* ICS text.                                                               *)
(***************************************************************************)
CRLF == <<"\r","\n">>

\* each step of the chain is the text.replace of one source line
\* escape_backslash that leaves the backslash alone
escape_backslash_skipped(text) == text

escape_backslash(text) == Replace(text, <<"\\">>, <<"\\","\\">>)
escape_semicolon(text) == Replace(text, <<";">>, <<"\\",";">>)
escape_comma(text) == Replace(text, <<",">>, <<"\\",",">>)
unify_newlines(text) == Replace(Replace(text, CRLF, <<"\n">>), <<"\r">>, <<"\n">>)
escape_newline(text) == Replace(text, <<"\n">>, <<"\\","n">>)

ics_escape(text) ==
    escape_newline(unify_newlines(escape_comma(escape_semicolon(escape_backslash(text)))))

FoldLimit == 75

\* the test of the while loop
fold_more(line) == Len(line) > FoldLimit

\* fold_step that cuts the continuation at the limit without counting its space
fold_step_full_width(line, out) ==
    <<<<" ">> \o SubSeq(line, FoldLimit + 1, Len(line)), Append(out, SubSeq(line, 1, FoldLimit + 1))>>

\* one pass of the while loop: <<line, out>> after it
fold_step(line, out) ==
    <<<<" ">> \o SubSeq(line, FoldLimit + 1, Len(line)), Append(out, SubSeq(line, 1, FoldLimit))>>

RECURSIVE fold_loop(_, _)
fold_loop(line, out) ==
    IF fold_more(line) THEN Let(fold_step(line, out), LAMBDA a : fold_loop(a[1], a[2]))
    ELSE Append(out, line)

ics_fold_line(line) ==
    IF Len(line) <= FoldLimit THEN line ELSE Join(fold_loop(line, <<>>), CRLF)

TZID == <<"E","u","r","o","p","e","/","C","o","p","e","n","h","a","g","e","n">>
SCRIPT_VERSION == <<"2","0","2","6","-","0","1","-","1","5","-","t","v","-","p","r","o","g","r","a","m","-","f","i","n","a","l","-","t","i","t","l","e","-","f","i","x">>

calendar_head ==
    <<<<"B","E","G","I","N",":","V","C","A","L","E","N","D","A","R">>,
      <<"P","R","O","D","I","D",":","-","/","/","C","h","a","t","G","P","T","/","/","H","a","n","d","b","a","l","l"," ","I","C","S","/","/","D","A">>,
      <<"V","E","R","S","I","O","N",":","2",".","0">>,
      <<"C","A","L","S","C","A","L","E",":","G","R","E","G","O","R","I","A","N">>,
      <<"M","E","T","H","O","D",":","P","U","B","L","I","S","H">>,
      <<"X","-","S","C","R","I","P","T","-","V","E","R","S","I","O","N",":">> \o SCRIPT_VERSION,
      <<"B","E","G","I","N",":","V","T","I","M","E","Z","O","N","E">>,
      <<"T","Z","I","D",":">> \o TZID,
      <<"X","-","L","I","C","-","L","O","C","A","T","I","O","N",":">> \o TZID,
      <<"B","E","G","I","N",":","D","A","Y","L","I","G","H","T">>,
      <<"T","Z","O","F","F","S","E","T","F","R","O","M",":","+","0","1","0","0">>,
      <<"T","Z","O","F","F","S","E","T","T","O",":","+","0","2","0","0">>,
      <<"T","Z","N","A","M","E",":","C","E","S","T">>,
      <<"D","T","S","T","A","R","T",":","1","9","7","0","0","3","2","9","T","0","2","0","0","0","0">>,
      <<"R","R","U","L","E",":","F","R","E","Q","=","Y","E","A","R","L","Y",";","B","Y","M","O","N","T","H","=","3",";","B","Y","D","A","Y","=","-","1","S","U">>,
      <<"E","N","D",":","D","A","Y","L","I","G","H","T">>,
      <<"B","E","G","I","N",":","S","T","A","N","D","A","R","D">>,
      <<"T","Z","O","F","F","S","E","T","F","R","O","M",":","+","0","2","0","0">>,
      <<"T","Z","O","F","F","S","E","T","T","O",":","+","0","1","0","0">>,
      <<"T","Z","N","A","M","E",":","C","E","T">>,
      <<"D","T","S","T","A","R","T",":","1","9","7","0","1","0","2","5","T","0","3","0","0","0","0">>,
      <<"R","R","U","L","E",":","F","R","E","Q","=","Y","E","A","R","L","Y",";","B","Y","M","O","N","T","H","=","1","0",";","B","Y","D","A","Y","=","-","1","S","U">>,
      <<"E","N","D",":","S","T","A","N","D","A","R","D">>,
      <<"E","N","D",":","V","T","I","M","E","Z","O","N","E">>>>

\* location_line that leaves the line out when the location is empty
location_line_if_set(ev) ==
    IF ev.location # <<>> THEN <<<<"L","O","C","A","T","I","O","N",":">> \o ics_escape(ev.location)>> ELSE <<>>

\* f"LOCATION:{ics_escape(ev.location)}" if ev.location else "LOCATION:"
location_line(ev) ==
    IF ev.location # <<>> THEN <<<<"L","O","C","A","T","I","O","N",":">> \o ics_escape(ev.location)>> ELSE <<<<"L","O","C","A","T","I","O","N",":">>>>

\* f"DESCRIPTION:{ics_escape(ev.description)}" if ev.description else "DESCRIPTION:"
description_line(ev) ==
    IF ev.description # <<>> THEN <<<<"D","E","S","C","R","I","P","T","I","O","N",":">> \o ics_escape(ev.description)>>
    ELSE <<<<"D","E","S","C","R","I","P","T","I","O","N",":">>>>

\* the lines of one event
vevent_lines(ev, now_utc) ==
    <<<<"B","E","G","I","N",":","V","E","V","E","N","T">>,
      <<"U","I","D",":">> \o stable_uid(ev.uid_seed),
      <<"D","T","S","T","A","M","P",":">> \o dt_to_ics_utc(now_utc),
      <<"D","T","S","T","A","R","T",";","T","Z","I","D","=">> \o TZID \o <<":">> \o dt_to_ics_local(ev.start),
      <<"D","T","E","N","D",";","T","Z","I","D","=">> \o TZID \o <<":">> \o dt_to_ics_local(ev.end),
      <<"S","U","M","M","A","R","Y",":">> \o ics_escape(ev.summary)>>
    \o location_line(ev) \o description_line(ev)
    \o <<<<"E","N","D",":","V","E","V","E","N","T">>>>

build_ics(evs, now_utc) ==
    Let(calendar_head
          \o Flatten(Tup([k \in DOMAIN evs |-> vevent_lines(evs[k], now_utc)]))
          \o <<<<"E","N","D",":","V","C","A","L","E","N","D","A","R">>>>,
        LAMBDA lines : Join(Map(lines, ics_fold_line), CRLF) \o CRLF)

(***************************************************************************)
(* Inputs.  A block is the text of one programme item.  The blocks of the  *)
(* first set are written out; those of the second are made from a date in  *)
(* each format DATE_RE and ISO_DATE_RE accept, a time H.MM and a content,  *)
(* on separate lines or on one line as the scraper's norm() leaves them.   *)
(***************************************************************************)
ListBlocks ==
    {<<"1","6","/","1","/","2","0","2","6","\n","1","8",".","0","0","\n","A","B"," ","-"," ","C","D","\n","E","M","\n","T","V","2">>,          \* a match on TV2
     <<"1","6","/","1","/","2","0","2","6","\n","1","8",".","0","0","\n","A","B"," ","-"," ","C","D","\n","E","M","\n","D","R","1">>,          \* the same match on DR1
     <<"1","6","/","1","/","2","0","2","6","\n","1","8",".","0","0","\n","A","B"," ","-"," ","C","D","\n","E","M","\n","x","1","\n","T","V","2">>,      \* the same match on TV2, one more line
     <<"1","6","/","1","/","2","0","2","6","\n","1","8",".","0","0","\n","A","A"," ","-"," ","B","B">>,                   \* same start, smaller summary, no channel
     <<"1","5","/","1","/","2","0","2","6","\n","2","3",".","3","0","\n","E","F"," ","-"," ","G","H",","," ","I","J","\n","T","V"," ","2"," "," ","S","p","o","r","t">>,  \* earlier, ends the next day
     <<"1","7","/","1","/","2","0","2","6","\n","1","9",".","0","0","\n","L","i","g","a">>,                      \* a competition banner alone
     <<"3","2","/","1","/","2","0","2","6"," ","1","8",".","0","0"," ","A","B"," ","-"," ","C","D"," ","E","M"," ","T","V","2">>,              \* day 32
     <<"1","8","/","1","/","2","0","2","6","\n","2","0",".","0","0","\n","T","V","2">>,                      \* a date, a time and a channel, nothing else
     <<"T","V","2"," ","S","p","o","r","t"," ","i"," ","a","f","t","e","n"," ","-"," ","s","e"," ","m","e","r","e">>}                 \* no date, no time

DateFormats == {"slash", "dash", "dot", "slash2", "dash2", "dot2", "iso"}
GivenDays == {5, 25}
GivenMonths == {1, 12}
GivenTimes == {<<18, 0>>, <<9, 5>>}
Contents == {<<<<"A","B"," ","-"," ","C","D">>>>}
Layouts == {"lines", "line"}

Num(n) == IF n < 10 THEN <<Digits[n + 1]>> ELSE Pad2(n)

DateText(fmt, pad, y, mo, d) ==
    LET dd == IF pad THEN Pad2(d) ELSE Num(d)
        mm == IF pad THEN Pad2(mo) ELSE Num(mo)
        sep == IF fmt \in {"slash", "slash2"} THEN <<"/">>
               ELSE IF fmt \in {"dash", "dash2"} THEN <<"-">> ELSE <<".">>
        yyyy == IF fmt \in {"slash2", "dash2", "dot2"} THEN Pad2(y % 100) ELSE Pad4(y)
    IN  IF fmt = "iso" THEN Pad4(y) \o <<"-">> \o Pad2(mo) \o <<"-">> \o Pad2(d)
        ELSE dd \o sep \o mm \o sep \o yyyy

TimeText(h, mi) == Num(h) \o <<".">> \o Pad2(mi)

Givens ==
    [fmt : DateFormats, pad : BOOLEAN, d : GivenDays, mo : GivenMonths,
     tm : GivenTimes, content : Contents, layout : Layouts]

GivenBlock(g) ==
    Join(<<DateText(g.fmt, g.pad, 2026, g.mo, g.d), TimeText(g.tm[1], g.tm[2])>> \o g.content,
         IF g.layout = "lines" THEN <<"\n">> ELSE <<" ">>)

BlockOfGiven == [g \in Givens |-> GivenBlock(g)]
GivenBlocks == {BlockOfGiven[g] : g \in Givens}

RECURSIVE ListsUpTo(_, _)
ListsUpTo(S, n) ==
    IF n = 0 THEN {<<>>}
    ELSE LET shorter == ListsUpTo(S, n - 1)
         IN  shorter \cup {Append(l, x) : l \in {m \in shorter : Len(m) = n - 1}, x \in S}

\* the lists of written-out blocks the scraper may return
Inputs == ListsUpTo(ListBlocks, MaxBlocks)

\* a page with no block, or with one block made from a date, a time and a pairing
GivenInputs == {<<>>} \cup {<<b>> : b \in GivenBlocks}

\* datetime.utcnow() at the time of encoding
Nows == {[y |-> 2026, mo |-> 1, d |-> 15, h |-> 6, mi |-> 30, s |-> 7],
         [y |-> 2026, mo |-> 11, d |-> 2, h |-> 23, mi |-> 59, s |-> 59]}

\* block_event of every block of the inputs
EventOfBlock == [b \in ListBlocks \cup GivenBlocks |-> block_event(b)]

NotWritten == <<>>
Running == -1

(***************************************************************************)
(* main and build_events_from_blocks.                                      *)
(***************************************************************************)
TextIdle ==
    /\ escIn = <<>> /\ escOut = <<>> /\ escPc = "idle"
    /\ foldIn = <<>> /\ foldLine = <<>> /\ foldOut = <<>> /\ foldRet = <<>> /\ foldPc = "idle"

MainIdle ==
    /\ blocks = <<>> /\ idx = 1 /\ events = <<>> /\ pc = "idle"
    /\ ret = Running /\ outFile = NotWritten

Init ==
    /\ blocks \in Inputs
    /\ idx = 1
    /\ events = <<>>
    /\ pc = "loop"
    /\ ret = Running
    /\ outFile = NotWritten
    /\ TextIdle

\* one pass of the for loop, lines 385-452; an exception leaves main
LoopBody ==
    /\ pc = "loop"
    /\ idx <= Len(blocks)
    /\ \E r \in {EventOfBlock[blocks[idx]]} :
         /\ pc' = IF r.kind = "raise" THEN "raised" ELSE "loop"
         /\ idx' = IF r.kind = "raise" THEN idx ELSE idx + 1
         /\ events' = IF r.kind = "event" THEN Append(events, r.ev) ELSE events
    /\ UNCHANGED <<blocks, ret, outFile, escIn, escOut, escPc, foldIn, foldLine, foldOut, foldRet, foldPc>>

\* the end of the loop: deduplicate, sort, return; lines 454-462
LoopEnd ==
    /\ pc = "loop"
    /\ idx > Len(blocks)
    /\ events' = dedup_and_sort(events)
    /\ pc' = "built"
    /\ UNCHANGED <<blocks, idx, ret, outFile, escIn, escOut, escPc, foldIn, foldLine, foldOut, foldRet, foldPc>>

\* main, lines 471-473: no events
MainEmpty ==
    /\ pc = "built"
    /\ events = <<>>
    /\ ret' = 2
    /\ pc' = "done"
    /\ UNCHANGED <<blocks, idx, events, outFile, escIn, escOut, escPc, foldIn, foldLine, foldOut, foldRet, foldPc>>

\* main, lines 475-479: encode and write
MainWrite ==
    /\ pc = "built"
    /\ events # <<>>
    /\ \E now_utc \in Nows : outFile' = build_ics(events, now_utc)
    /\ ret' = 0
    /\ pc' = "done"
    /\ UNCHANGED <<blocks, idx, events, escIn, escOut, escPc, foldIn, foldLine, foldOut, foldRet, foldPc>>

Next == LoopBody \/ LoopEnd \/ MainEmpty \/ MainWrite

Spec == Init /\ [][Next]_vars

\* main on a page of one block
InitGiven ==
    /\ blocks \in GivenInputs
    /\ idx = 1
    /\ events = <<>>
    /\ pc = "loop"
    /\ ret = Running
    /\ outFile = NotWritten
    /\ TextIdle

SpecGiven == InitGiven /\ [][Next]_vars

\* build_events_from_blocks(bs) as a whole: [raised, events]
RECURSIVE collect_from(_, _, _)
collect_from(bs, i, evs) ==
    IF i > Len(bs) THEN [raised |-> FALSE, events |-> dedup_and_sort(evs)]
    ELSE Let(EventOfBlock[bs[i]],
             LAMBDA r :
               IF r.kind = "raise" THEN [raised |-> TRUE, events |-> <<>>]
               ELSE collect_from(bs, i + 1, IF r.kind = "event" THEN Append(evs, r.ev) ELSE evs))

build_events_from_blocks(bs) == collect_from(bs, 1, <<>>)

(***************************************************************************)
(* ics_escape on its own.                                                  *)
(***************************************************************************)
EscChars == {"\\", ";", ",", "\n", "\r", "n", "a"}

InitEscape ==
    /\ escIn \in ListsUpTo(EscChars, MaxEscLen)
    /\ escOut = <<>>
    /\ escPc = "call"
    /\ foldIn = <<>> /\ foldLine = <<>> /\ foldOut = <<>> /\ foldRet = <<>> /\ foldPc = "idle"
    /\ MainIdle

EscapeCall ==
    /\ escPc = "call"
    /\ escOut' = ics_escape(escIn)
    /\ escPc' = "done"
    /\ UNCHANGED <<blocks, idx, events, pc, ret, outFile, escIn, foldIn, foldLine, foldOut, foldRet, foldPc>>

NextEscape == EscapeCall

SpecEscape == InitEscape /\ [][NextEscape]_vars

(***************************************************************************)
(* ics_fold_line on its own, one pass of its loop at a time.               *)
(***************************************************************************)
\* a line of n characters; in the second kind every fifth character is a space
FoldText(kind, n) ==
    Tup([i \in 1..n |-> IF kind = 2 /\ i % 5 = 1 THEN " " ELSE LowerCase[(i % 26) + 1]])

InitFold ==
    /\ foldIn \in {FoldText(kind, n) : kind \in {1, 2}, n \in 0..MaxFoldLen}
    /\ foldLine = foldIn
    /\ foldOut = <<>>
    /\ foldRet = <<>>
    /\ foldPc = "call"
    /\ escIn = <<>> /\ escOut = <<>> /\ escPc = "idle"
    /\ MainIdle

\* lines 64-66
FoldCall ==
    /\ foldPc = "call"
    /\ IF Len(foldLine) <= FoldLimit
         THEN foldRet' = foldLine /\ foldPc' = "done"
         ELSE foldRet' = foldRet /\ foldPc' = "loop"
    /\ UNCHANGED <<blocks, idx, events, pc, ret, outFile, escIn, escOut, escPc, foldIn, foldLine, foldOut>>

\* lines 67-69
FoldPass ==
    /\ foldPc = "loop"
    /\ fold_more(foldLine)
    /\ foldLine' = fold_step(foldLine, foldOut)[1]
    /\ foldOut' = fold_step(foldLine, foldOut)[2]
    /\ UNCHANGED <<blocks, idx, events, pc, ret, outFile, escIn, escOut, escPc, foldIn, foldRet, foldPc>>

\* lines 70-71
FoldReturn ==
    /\ foldPc = "loop"
    /\ ~fold_more(foldLine)
    /\ foldOut' = Append(foldOut, foldLine)
    /\ foldRet' = Join(Append(foldOut, foldLine), CRLF)
    /\ foldPc' = "done"
    /\ UNCHANGED <<blocks, idx, events, pc, ret, outFile, escIn, escOut, escPc, foldIn, foldLine>>

NextFold == FoldCall \/ FoldPass \/ FoldReturn

\* the call runs on until it returns: a step that can be taken is taken
SpecFold == InitFold /\ [][NextFold]_vars /\ WF_vars(NextFold)


(***************************************************************************)
(* Properties.                                                             *)
(***************************************************************************)
\* what block i of the input yields
EventAt(i) == EventOfBlock[blocks[i]]
Yields(i) == EventAt(i).kind = "event"

\* blocks i and j both yield an event, with the same start and summary
SameMatch(i, j) ==
    /\ Yields(i) /\ Yields(j)
    /\ EventAt(i).ev.start = EventAt(j).ev.start
    /\ EventAt(i).ev.summary = EventAt(j).ev.summary

\* the events of the final list with the start and summary of e
WithStartSummary(e) ==
    {k \in DOMAIN events : events[k].start = e.start /\ events[k].summary = e.summary}

\* C1 as the specification states it: two blocks that resolve to the same
\* start and the same summary leave exactly one event in the final list and
\* have the same UID, whatever their channels and descriptions.
C1_StartSummaryIdentity ==
    pc = "built" =>
      \A i, j \in DOMAIN blocks :
        SameMatch(i, j) =>
          /\ stable_uid(EventAt(i).ev.uid_seed) = stable_uid(EventAt(j).ev.uid_seed)
          /\ Cardinality(WithStartSummary(EventAt(i).ev)) = 1

\* C1, amended: the identity of an event is its start, its summary and its
\* channel.  Two blocks with the same start and summary have the same UID
\* exactly when they have the same channel; those with the same channel leave
\* one event in the final list, whatever their descriptions, and each channel
\* seen for the match keeps an event of its own.
C1_ChannelInIdentity ==
    pc = "built" =>
      \A i, j \in DOMAIN blocks :
        SameMatch(i, j) =>
          /\ (stable_uid(EventAt(i).ev.uid_seed) = stable_uid(EventAt(j).ev.uid_seed))
               <=> (EventAt(i).ev.location = EventAt(j).ev.location)
          /\ Cardinality({k \in WithStartSummary(EventAt(i).ev) :
                            events[k].location = EventAt(i).ev.location}) = 1

\* two blocks of one match on one channel with different descriptions, and a
\* third on another channel, have been collapsed to two events
C1_Witness ==
    /\ pc = "built"
    /\ Len(events) = 2
    /\ \E i, j, m \in DOMAIN blocks :
         /\ SameMatch(i, j) /\ SameMatch(i, m)
         /\ EventAt(i).ev.location = EventAt(j).ev.location
         /\ EventAt(i).ev.description # EventAt(j).ev.description
         /\ EventAt(i).ev.location # EventAt(m).ev.location

\* the blocks of the written-out set with a date and a time for which none of
\* the three strategies of extract_teams_and_competition finds teams
BannerOnly ==
    {b \in ListBlocks : /\ parse_datetime_from_text(b).found
                        /\ extract_teams_and_competition(lines_of(b))[1] = <<>>}

\* the date and time of such a block
StartOf == [b \in BannerOnly |-> parse_datetime_from_text(b).dt]

\* C2 as the specification states it: a block with a date and a time but no
\* team pairing adds no event; no event of the final list stems from it.
C2_NoEventWithoutTeams ==
    pc = "built" =>
      \A i \in DOMAIN blocks :
        blocks[i] \in BannerOnly =>
          ~\E k \in DOMAIN events : events[k].start = StartOf[blocks[i]]

\* the lines of a block that are no date, time or channel line and no noise
ContentLines == [b \in BannerOnly |-> Filter(cleaned_lines(lines_of(b)), LAMBDA ln : ~is_meta(ln))]

\* C2, amended: a block with a date and a time but no team pairing yields an
\* event at its date and time, whose summary is the competition line of the
\* block, or the text "Håndboldkamp" when the block has no such line.
C2_FallbackSummary ==
    pc = "built" =>
      \A i \in DOMAIN blocks :
        blocks[i] \in BannerOnly =>
          \E k \in DOMAIN events :
            /\ events[k].start = StartOf[blocks[i]]
            /\ events[k].summary # <<>>
            /\ events[k].summary = IF ContentLines[blocks[i]] = <<>> THEN Placeholder
                                   ELSE ContentLines[blocks[i]][1]

\* the list holds the banner block and the block with nothing but a channel,
\* and both have left an event
C2_Witness ==
    /\ pc = "built"
    /\ Len(events) = 2
    /\ \A i \in DOMAIN blocks : blocks[i] \in BannerOnly
    /\ \E k \in DOMAIN events : events[k].summary = Placeholder
    /\ \E k \in DOMAIN events : events[k].summary = <<"L","i","g","a">>

\* C3: no block makes the run raise; a run fails exactly when the final list
\* is empty, and then main returns non-zero and writes no document.
C3_NoBlockFailsTheRun ==
    /\ pc # "raised"
    /\ pc = "done" => /\ (ret # 0) <=> (events = <<>>)
                      /\ (outFile = NotWritten) <=> (events = <<>>)

\* the start a given date and time stand for
GivenStart(g) == [y |-> 2026, mo |-> g.mo, d |-> g.d, h |-> g.tm[1], mi |-> g.tm[2], s |-> 0]

\* C4: a block with one date in an accepted format, one time H.MM and one
\* pairing line yields exactly one event, which starts at that date and time.
C4_StartIsDateAndTime ==
    \A g \in Givens :
      blocks = <<BlockOfGiven[g]>> =>
        /\ pc # "raised"
        /\ pc = "built" => /\ Len(events) = 1
                           /\ events[1].start = GivenStart(g)

\* seq with x put in at position i
InsertAt(seq, i, x) == SubSeq(seq, 1, i - 1) \o <<x>> \o SubSeq(seq, i, Len(seq))

\* no two events of the final list have the same uid_seed
UniqueSeeds ==
    \A k, l \in DOMAIN events : events[k].uid_seed = events[l].uid_seed => k = l

\* C5 as the specification states it: no two events of the final list have
\* the same identity, and the input with a block of it fed once more, at any
\* position, gives the same final set.
C5_AnyRepeatIsIdempotent ==
    pc = "built" =>
      /\ UniqueSeeds
      /\ \A j \in DOMAIN blocks : \A i \in 1..(Len(blocks) + 1) :
           Range(build_events_from_blocks(InsertAt(blocks, i, blocks[j])).events) = Range(events)

\* C5, amended: no two events of the final list have the same uid_seed, and
\* the input with a block of it fed once more, at or before the position the
\* block has, gives the same final set.
C5_EarlierRepeatIsIdempotent ==
    pc = "built" =>
      /\ UniqueSeeds
      /\ \A j \in DOMAIN blocks : \A i \in 1..j :
           Range(build_events_from_blocks(InsertAt(blocks, i, blocks[j])).events) = Range(events)

\* a block was fed twice, with another block of the same identity between
C5_Witness ==
    /\ pc = "built"
    /\ Len(events) = 1
    /\ \E i, m, j \in DOMAIN blocks :
         /\ i < m /\ m < j
         /\ blocks[i] = blocks[j] /\ blocks[m] # blocks[i]
         /\ Yields(i) /\ Yields(m)
         /\ EventAt(i).ev.uid_seed = EventAt(m).ev.uid_seed

\* The inverse mapping of the escapes, read from left to right:
\* \\ -> backslash, \; -> ;, \, -> ,, \n -> line break.
RECURSIVE unescape_from(_, _, _)
unescape_from(s, i, acc) ==
    IF i > Len(s) THEN acc
    ELSE IF s[i] = "\\" /\ i < Len(s) /\ s[i + 1] \in {"\\", ";", ",", "n"}
      THEN unescape_from(s, i + 2, Append(acc, IF s[i + 1] = "n" THEN "\n" ELSE s[i + 1]))
    ELSE unescape_from(s, i + 1, Append(acc, s[i]))

ics_unescape(s) == unescape_from(s, 1, <<>>)

\* the text with every line break, CR LF, CR or LF, written as LF
RECURSIVE breaks_from(_, _, _)
breaks_from(s, i, acc) ==
    IF i > Len(s) THEN acc
    ELSE IF s[i] = "\r" /\ i < Len(s) /\ s[i + 1] = "\n" THEN breaks_from(s, i + 2, Append(acc, "\n"))
    ELSE IF s[i] = "\r" THEN breaks_from(s, i + 1, Append(acc, "\n"))
    ELSE breaks_from(s, i + 1, Append(acc, s[i]))

LineBreaksAsLF(s) == breaks_from(s, 1, <<>>)

\* C6 as the specification states it: decoding ics_escape(text) gives back
\* the text exactly.
C6_RoundTripExact ==
    escPc = "done" => ics_unescape(escOut) = escIn

\* C6, amended: decoding ics_escape(text) gives back the text with every line
\* break written as LF; a text without CR comes back exactly.
C6_RoundTripUpToLineBreaks ==
    escPc = "done" =>
      /\ ics_unescape(escOut) = LineBreaksAsLF(escIn)
      /\ (~\E i \in DOMAIN escIn : escIn[i] = "\r") => ics_unescape(escOut) = escIn

\* a text with a backslash, a line break and a separator has been escaped
C6_Witness ==
    /\ escPc = "done"
    /\ \E i \in DOMAIN escIn : escIn[i] = "\\"
    /\ \E i \in DOMAIN escIn : escIn[i] = "\n"
    /\ \E i \in DOMAIN escIn : escIn[i] \in {";", ","}
    /\ Len(escOut) = 2 * Len(escIn)

\* the positions of the document at which a line begins
LineStarts(doc) ==
    {1} \cup {i + 2 : i \in {j \in 1..(Len(doc) - 2) : doc[j] = "\r" /\ doc[j + 1] = "\n"}}

\* the k-th smallest number of a set
Nth(S, k) == CHOOSE p \in S : Cardinality({q \in S : q < p}) = k - 1

\* the line that begins at p is `line`, folded
LineIs(doc, p, line) == StartsAt(doc, p, ics_fold_line(line) \o CRLF)

\* the lines that begin between lo and hi with `name`
Named(doc, starts, lo, hi, name) ==
    {p : p \in {q \in starts : lo < q /\ q < hi /\ StartsAt(doc, q, name)}}

\* between lo and hi one line begins with `name`, and it is `name` and `value`
OneProp(doc, starts, lo, hi, name, value) ==
    \E S \in {Named(doc, starts, lo, hi, name)} :
      /\ Cardinality(S) = 1
      /\ \A p \in S : LineIs(doc, p, name \o value)

\* SUMMARY, DTSTART, DTEND, DTSTAMP and UID are between lo and hi, once each
HasRequired(doc, starts, lo, hi, ev) ==
    /\ OneProp(doc, starts, lo, hi, <<"S","U","M","M","A","R","Y",":">>, ics_escape(ev.summary))
    /\ OneProp(doc, starts, lo, hi, <<"D","T","S","T","A","R","T",";">>, <<"T","Z","I","D","=","E","u","r","o","p","e","/","C","o","p","e","n","h","a","g","e","n",":">> \o dt_to_ics_local(ev.start))
    /\ OneProp(doc, starts, lo, hi, <<"D","T","E","N","D",";">>, <<"T","Z","I","D","=","E","u","r","o","p","e","/","C","o","p","e","n","h","a","g","e","n",":">> \o dt_to_ics_local(ev.end))
    /\ \E now_utc \in Nows : OneProp(doc, starts, lo, hi, <<"D","T","S","T","A","M","P",":">>, dt_to_ics_utc(now_utc))
    /\ OneProp(doc, starts, lo, hi, <<"U","I","D",":">>, stable_uid(ev.uid_seed))

\* the VEVENT sections of the document in its order, each <<lo, hi>>: where
\* its BEGIN:VEVENT line and its END:VEVENT line begin
Sections(doc, starts) ==
    Let(<<Named(doc, starts, 0, Len(doc), <<"B","E","G","I","N",":","V","E","V","E","N","T","\r","\n">>),
          Named(doc, starts, 0, Len(doc), <<"E","N","D",":","V","E","V","E","N","T","\r","\n">>)>>,
        LAMBDA p : IF Cardinality(p[1]) # Cardinality(p[2]) THEN <<>>
                   ELSE Tup([k \in 1..Cardinality(p[1]) |-> <<Nth(p[1], k), Nth(p[2], k)>>]))

\* the document has a VEVENT section for each event of the list
SectionPerEvent(sections) ==
    /\ Len(sections) = Len(events)
    /\ \A k \in DOMAIN sections : sections[k][1] < sections[k][2]

\* C7 as the specification states it: the section of an event has a LOCATION
\* line, a DESCRIPTION line, only when the location, the description, is not
\* empty; SUMMARY, DTSTART, DTEND, DTSTAMP and UID are there for every event.
C7_OptionalLinesOnlyWhenSet ==
    (pc = "done" /\ ret = 0) =>
      \E starts \in {LineStarts(outFile)} :
        \E sections \in {Sections(outFile, starts)} :
        /\ SectionPerEvent(sections)
        /\ \A k \in DOMAIN events :
             \E lo \in {sections[k][1]}, hi \in {sections[k][2]} :
               /\ HasRequired(outFile, starts, lo, hi, events[k])
               /\ (Named(outFile, starts, lo, hi, <<"L","O","C","A","T","I","O","N",":">>) # {}) <=> (events[k].location # <<>>)
               /\ (Named(outFile, starts, lo, hi, <<"D","E","S","C","R","I","P","T","I","O","N",":">>) # {}) <=> (events[k].description # <<>>)

\* C7, amended: the section of every event has one LOCATION line and one
\* DESCRIPTION line, which carry the escaped location and description and are
\* bare ("LOCATION:", "DESCRIPTION:") when these are empty; SUMMARY, DTSTART,
\* DTEND, DTSTAMP and UID are there for every event.
C7_OptionalLinesAlways ==
    (pc = "done" /\ ret = 0) =>
      \E starts \in {LineStarts(outFile)} :
        \E sections \in {Sections(outFile, starts)} :
        /\ SectionPerEvent(sections)
        /\ \A k \in DOMAIN events :
             \E lo \in {sections[k][1]}, hi \in {sections[k][2]} :
               /\ HasRequired(outFile, starts, lo, hi, events[k])
               /\ OneProp(outFile, starts, lo, hi, <<"L","O","C","A","T","I","O","N",":">>, ics_escape(events[k].location))
               /\ OneProp(outFile, starts, lo, hi, <<"D","E","S","C","R","I","P","T","I","O","N",":">>, ics_escape(events[k].description))

\* a document was written with an event without location and description and
\* an event with both
C7_Witness ==
    /\ pc = "done" /\ ret = 0 /\ outFile # NotWritten
    /\ \E k \in DOMAIN events : events[k].location = <<>> /\ events[k].description = <<>>
    /\ \E k \in DOMAIN events : events[k].location # <<>> /\ events[k].description # <<>>

\* a is not behind b in the order by (start, summary)
InOrder(a, b) ==
    \/ DtLess(a.start, b.start)
    \/ a.start = b.start /\ ~StrLess(b.summary, a.summary)

\* C8: the list build_events_from_blocks returns is in ascending order of
\* (start, summary), and the document has the events in the order of the list.
C8_SortedByStartSummary ==
    /\ pc \in {"built", "done"} =>
         \A k \in 1..(Len(events) - 1) : InOrder(events[k], events[k + 1])
    /\ (pc = "done" /\ ret = 0) =>
         \E starts \in {LineStarts(outFile)} :
           \E sections \in {Sections(outFile, starts)} :
           /\ SectionPerEvent(sections)
           /\ \A k \in DOMAIN events :
                \E lo \in {sections[k][1]}, hi \in {sections[k][2]} :
                  /\ OneProp(outFile, starts, lo, hi, <<"D","T","S","T","A","R","T",";">>, <<"T","Z","I","D","=","E","u","r","o","p","e","/","C","o","p","e","n","h","a","g","e","n",":">> \o dt_to_ics_local(events[k].start))
                  /\ OneProp(outFile, starts, lo, hi, <<"S","U","M","M","A","R","Y",":">>, ics_escape(events[k].summary))

\* three blocks came in descending order, two of them with the same start
C8_Witness ==
    /\ pc = "done" /\ ret = 0
    /\ Len(events) = 3
    /\ \A i \in DOMAIN blocks : Yields(i) /\ EventAt(i).ev = events[Len(blocks) + 1 - i]
    /\ \E k \in 1..2 : events[k].start = events[k + 1].start /\ events[k].summary # events[k + 1].summary
    /\ \E k \in 1..2 : events[k].start # events[k + 1].start

\* the last block of the input that yields an event with the uid_seed of block i
LastOf(i) ==
    Last(1, Len(blocks), LAMBDA j : Yields(j) /\ EventAt(j).ev.uid_seed = EventAt(i).ev.uid_seed)

Physical(folded) == Split(folded, CRLF)

\* ics_fold_line has returned lines of at most FoldLimit characters, every one
\* but the first with one added space in front, which give the line back
FoldedRight ==
    foldPc = "done" =>
      \E phys \in {Physical(foldRet)} :
        /\ \A k \in DOMAIN phys : Len(phys[k]) <= FoldLimit
        /\ \A k \in DOMAIN phys : k > 1 => Len(phys[k]) >= 1 /\ phys[k][1] = " "
        /\ Flatten(Tup([k \in DOMAIN phys |-> IF k = 1 THEN phys[k] ELSE Tail(phys[k])])) = foldIn
        /\ Replace(foldRet, CRLF \o <<" ">>, <<>>) = foldIn
        /\ Len(foldIn) <= FoldLimit => foldRet = foldIn

====
